---- MODULE Spec2Model ----
(***************************************************************************)
(* Request dispatch of dotweb's HttpServer (server.go): ServeHTTP, the     *)
(* standard dispatcher wrapRouterHandle and the WebSocket dispatcher       *)
(* wrapWebSocketHandle, with the two sync.Pool pools, the module chain,    *)
(* the deferred recovery block and the GlobalState counters.               *)
(***************************************************************************)
EXTENDS Integers, Sequences, FiniteSets, TLC

\* ---- bounds ----
MaxModules == 2
MaxRequests == 2
MaxInFlight == 2

Slots == 1..MaxInFlight

\* ---- values ----
NoErr == <<"none", 0>>
HijackFault == <<"hijack", 0>>
ExceptionFault == <<"exception", 0>>
HandlerStep == <<"handler", 0>>
BeginStep(i) == <<"begin", i>>
EndStep(i) == <<"end", i>>

HeaderServer == "Server"
HeaderContentType == "Content-Type"
HeaderModule == "X-Module"
StatusInternalServerError == 500
HandlerStatuses == {200}
ConnectionValues == {"Upgrade", "", "upgrade", "keep-alive, Upgrade"}
HandlerBehaviours == {"ok", "panic", "write_panic"}
HijackOutcomes == {"ok", "err", "panic"}

\* message bodies: the handler's "ok", hijack_err.Error(), and errmsg
MsgOk == <<"ok", "none", 0>>
MsgHijackErr == <<"hijack_err", "none", 0>>
CatchError(err) == <<"errmsg", err[1], err[2]>>
MsgLen(m) == IF m = MsgOk THEN 2 ELSE 3

\* ---- module list and exception handler: set once at server setup ----
ModuleKinds == [OnBeginRequest : BOOLEAN, OnEndRequest : BOOLEAN]
RECURSIVE SeqsUpTo(_, _)
SeqsUpTo(S, n) ==
  IF n = 0 THEN {<< >>}
  ELSE LET shorter == SeqsUpTo(S, n - 1)
       IN shorter \cup {Append(q, x) : q \in {t \in shorter : Len(t) = n - 1}, x \in S}

\* ---- the http.ResponseWriter of one request, as the client sees it ----
NewSink == [header |-> {}, wroteHeader |-> FALSE, status |-> 0, sent |-> {},
            body |-> << >>, hijacked |-> FALSE]
SinkHeaderSet(w, name) == [w EXCEPT !.header = @ \cup {name}]
SinkWriteHeader(w, code) ==
  IF w.wroteHeader \/ w.hijacked THEN w
  ELSE [w EXCEPT !.wroteHeader = TRUE, !.status = code, !.sent = w.header]
SinkWrite(w, m) ==
  IF w.hijacked THEN w
  ELSE [SinkWriteHeader(w, 200) EXCEPT !.body = Append(@, m)]
SinkWritten(w, m) == IF w.hijacked THEN 0 ELSE MsgLen(m)

\* ---- Response wrapper and HttpContext objects ----
NewResponse == [writer |-> 0, Status |-> 0, Size |-> 0]
ResponseReset(res, w) == [writer |-> w, Status |-> 0, Size |-> 0]
NewHttpContext == [Response |-> 0, Request |-> 0, params |-> << >>,
                   IsWebSocket |-> FALSE, WebSocket |-> 0]
ContextReset(ctx, res, r, params) ==
  [Response |-> res, Request |-> r, params |-> params,
   IsWebSocket |-> FALSE, WebSocket |-> 0]

VARIABLES
  Modules,           \* server.dotweb.Modules
  ExceptionHandler,  \* server.dotweb.ExceptionHandler # nil
  poolResponse,      \* idle instances of server.pool.response
  poolContext,       \* idle instances of server.pool.context
  responses,         \* the Response objects ever constructed
  contexts,          \* the HttpContext objects ever constructed
  RequestCount,      \* GlobalState request counter
  ErrorCount,        \* GlobalState error counter
  sinks,             \* http.ResponseWriter of the request in each slot
  reqs,              \* the goroutine serving the request in each slot
  served,            \* requests accepted so far
  env,               \* the transport: connections served at once, Connection headers sent
  tally              \* requests that reached AddRequestCount, requests that faulted

vars == <<Modules, ExceptionHandler, poolResponse, poolContext, responses,
          contexts, RequestCount, ErrorCount, sinks, reqs, served, env, tally>>

IdleReq ==
  [pc |-> "idle", id |-> 0, Connection |-> "", path |-> "none", isHijack |-> FALSE,
   res |-> 0, httpCtx |-> 0, i |-> 0, err |-> NoErr, count0 |-> <<0, 0>>,
   outcome |-> "none", escaped |-> NoErr, hijack |-> "none",
   trace |-> << >>, events |-> << >>,
   gotRes |-> 0, gotCtx |-> 0, putRes |-> 0, putCtx |-> 0,
   addReq |-> 0, addErr |-> 0, errLogs |-> 0, accessLogs |-> 0,
   ehCalls |-> 0, ehArgs |-> <<0, NoErr>>, logged |-> << >>, usedAfterPut |-> FALSE,
   prevCtx |-> NewHttpContext]

InitCommon ==
  /\ Modules \in SeqsUpTo(ModuleKinds, MaxModules)
  /\ ExceptionHandler \in BOOLEAN
  /\ poolResponse = {}
  /\ poolContext = {}
  /\ responses = << >>
  /\ contexts = << >>
  /\ RequestCount = 0
  /\ ErrorCount = 0
  /\ sinks = [s \in Slots |-> NewSink]
  /\ reqs = [s \in Slots |-> IdleReq]
  /\ served = 0
  /\ tally = [reached |-> 0, faulted |-> 0]

\* one connection at a time
Init == InitCommon /\ env = [inFlight |-> 1, connections |-> {"Upgrade", ""},
                             hookFaults |-> BOOLEAN, handlers |-> HandlerBehaviours]
\* concurrent connections, to a server with one module that has both hooks;
\* hooks return, handlers return or panic
InitConcurrent ==
  /\ InitCommon
  /\ Modules = <<[OnBeginRequest |-> TRUE, OnEndRequest |-> TRUE]>>
  /\ env = [inFlight |-> MaxInFlight, connections |-> {"Upgrade", ""},
            hookFaults |-> {FALSE}, handlers |-> {"ok", "panic"}]

\* one connection at a time, clients sending every Connection header value;
\* hooks return, handlers return or panic
InitRouting ==
  /\ InitCommon
  /\ env = [inFlight |-> 1, connections |-> ConnectionValues,
            hookFaults |-> {FALSE}, handlers |-> {"ok", "panic"}]

\* ---- helpers over the per-request goroutine ----
Free(s) == reqs[s].pc = "idle"
InFlight == Cardinality({s \in Slots : ~Free(s)})
Succ(steps, pc) ==
  LET k == CHOOSE j \in 1..Len(steps) : steps[j] = pc
  IN IF k = Len(steps) THEN "return" ELSE steps[k + 1]

\* mutation: both Put before the access log line
DeferredSteps_putFirst == <<"put_res", "put_ctx", "accesslog">>
\* the deferred block after the recover branch: access log, then both Put
DeferredSteps == <<"accesslog", "put_res", "put_ctx">>
\* mutation: the recover branch without AddErrorCount
RecoverSteps_noCount == <<"exception", "errlog">>
\* the recover branch of the deferred block
RecoverSteps == <<"exception", "errlog", "adderr">>
\* the function body after the end-hooks when nothing panicked
StdNormalTail == <<"count">> \o DeferredSteps
\* mutation: AddRequestCount inside the deferred block
StdFaultTail_counts == RecoverSteps \o <<"count">> \o DeferredSteps
\* the deferred block when recover() returned a value
StdFaultTail == RecoverSteps \o DeferredSteps

\* leaving the dispatcher function
Return(q) == [q EXCEPT !.pc = "done", !.outcome = "returned"]
Escape(q, err) == [q EXCEPT !.pc = "done", !.outcome = "panicked", !.escaped = err]
Goto(q, pc) == IF pc = "return" THEN Return(q) ELSE [q EXCEPT !.pc = pc]

\* mutation: a deferred func that does not recover
Panics_unrecovered(q, err) == [Escape(q, err) EXCEPT !.err = err]
\* a panic raised in the body once the deferred func is registered
Panics(q, err) == [q EXCEPT !.pc = StdFaultTail[1], !.err = err]

\* module.OnBeginRequest != nil / module.OnEndRequest != nil
HasBeginHook(i) == Modules[i].OnBeginRequest
\* mutation: the end loop tests the begin hook
HasEndHook_beginField(i) == Modules[i].OnBeginRequest
HasEndHook(i) == Modules[i].OnEndRequest

\* for _, module := range server.dotweb.Modules: where the loop goes next
AfterBeginHook(i) == IF i < Len(Modules) THEN "begin" ELSE "handle"
AfterEndHook(i) == IF i < Len(Modules) THEN "end" ELSE StdNormalTail[1]
EnterBegin == IF Len(Modules) > 0 THEN "begin" ELSE "handle"
EnterEnd == IF Len(Modules) > 0 THEN "end" ELSE StdNormalTail[1]

\* Response.WriteHeader, Response.Write, Response.Header().Set, and the
\* direct write to Response.writer, on the heap H = [R: responses, W: sinks]
Heap == [R |-> responses, W |-> sinks]
ResponseWriteHeader(H, res, code) ==
  [R |-> [H.R EXCEPT ![res].Status = code],
   W |-> [H.W EXCEPT ![H.R[res].writer] = SinkWriteHeader(@, code)]]
ResponseWrite(H, res, m) ==
  [R |-> [H.R EXCEPT ![res].Size = @ + SinkWritten(H.W[H.R[res].writer], m)],
   W |-> [H.W EXCEPT ![H.R[res].writer] = SinkWrite(@, m)]]
ResponseHeaderSet(H, res, name) ==
  [R |-> H.R, W |-> [H.W EXCEPT ![H.R[res].writer] = SinkHeaderSet(@, name)]]
WriterWriteString(H, res, m) ==
  [R |-> H.R, W |-> [H.W EXCEPT ![H.R[res].writer] = SinkWrite(@, m)]]
\* HttpContext.WriteString
ContextWriteString(H, ctx, m) == ResponseWrite(H, contexts[ctx].Response, m)

\* sync.Pool.Get: an arbitrary idle instance, or a new one from New. The pool
\* may drop its idle items at any time (they are collected); a Get that
\* returns a new instance although items were Put is a Get after such a drop.
PoolGet(pool, heap) == pool \cup {Len(heap) + 1}
PoolAfterGet(pool, heap, x) == IF x > Len(heap) THEN {} ELSE pool \ {x}
Instance(heap, x, blank) == IF x > Len(heap) THEN blank ELSE heap[x]
HeapAfterGet(heap, pool, x, blank, obj) ==
  IF x > Len(heap)
  THEN Append([i \in 1..Len(heap) |-> IF i \in pool THEN blank ELSE heap[i]], obj)
  ELSE [heap EXCEPT ![x] = obj]

\* reading or writing a pooled object the request has already Put back
UsesContext(q) == q.usedAfterPut \/ q.putCtx > 0
UsesBoth(q) == q.usedAfterPut \/ q.putCtx > 0 \/ q.putRes > 0

\* mutation: the header value compared without regard to case
checkIsWebSocketRequest_anyCase(conn) == conn \in {"Upgrade", "upgrade"}
checkIsWebSocketRequest(conn) == conn = "Upgrade"

\* the tally after a step of the request in slot s: one more request reached
\* AddRequestCount, or one more request faulted (a hook, the handler or the
\* hijack attempt panicked)
TallyAfter(s) ==
  [reached |-> tally.reached + (IF reqs'[s].addReq > reqs[s].addReq THEN 1 ELSE 0),
   faulted |-> tally.faulted +
     (IF \/ reqs[s].err = NoErr /\ reqs'[s].err # NoErr
         \/ reqs[s].hijack # "panic" /\ reqs'[s].hijack = "panic"
      THEN 1 ELSE 0)]

\* ---- ServeHTTP ----
ServeHTTP(s) ==
  /\ served < MaxRequests
  /\ InFlight < env.inFlight
  /\ Free(s)
  /\ \A t \in Slots : t < s => ~Free(t)
  /\ \E conn \in env.connections, hj \in BOOLEAN :
       LET ws == checkIsWebSocketRequest(conn) IN
       /\ reqs' = [reqs EXCEPT ![s] =
            [IdleReq EXCEPT !.pc = IF ws THEN "ws_get_ctx" ELSE "get_res",
                            !.id = served + 1,
                            !.count0 = <<RequestCount, ErrorCount>>,
                            !.Connection = conn,
                            !.path = IF ws THEN "websocket" ELSE "router",
                            !.isHijack = hj]]
       /\ sinks' = [sinks EXCEPT ![s] =
            IF ws THEN NewSink ELSE SinkHeaderSet(NewSink, HeaderServer)]
  /\ served' = served + 1
  /\ UNCHANGED <<Modules, ExceptionHandler, poolResponse, poolContext, responses,
                 contexts, RequestCount, ErrorCount, env, tally>>

\* ---- wrapRouterHandle ----
\* res := server.pool.response.Get(); res.Reset(w)
GetResponse(s) ==
  LET q == reqs[s] IN
  /\ q.pc = "get_res"
  /\ \E x \in PoolGet(poolResponse, responses) :
       /\ poolResponse' = PoolAfterGet(poolResponse, responses, x)
       /\ responses' = HeapAfterGet(responses, poolResponse, x, NewResponse,
                                    ResponseReset(Instance(responses, x, NewResponse), s))
       /\ reqs' = [reqs EXCEPT ![s] = [q EXCEPT !.pc = "get_ctx", !.res = x,
                                                !.gotRes = @ + 1]]
  /\ UNCHANGED <<Modules, ExceptionHandler, poolContext, contexts, RequestCount,
                 ErrorCount, sinks, served, env, tally>>

\* httpCtx := server.pool.context.Get(); httpCtx.Reset(res, r, params)
GetContext(s) ==
  LET q == reqs[s] IN
  /\ q.pc = "get_ctx"
  /\ \E x \in PoolGet(poolContext, contexts) :
       /\ poolContext' = PoolAfterGet(poolContext, contexts, x)
       /\ contexts' = HeapAfterGet(contexts, poolContext, x, NewHttpContext,
                                   ContextReset(Instance(contexts, x, NewHttpContext),
                                                q.res, q.id, <<q.id>>))
       /\ reqs' = [reqs EXCEPT ![s] =
            [q EXCEPT !.pc = IF q.isHijack THEN "hijack" ELSE EnterBegin,
                      !.httpCtx = x, !.gotCtx = @ + 1, !.i = 1,
                      !.prevCtx = Instance(contexts, x, NewHttpContext)]]
  /\ UNCHANGED <<Modules, ExceptionHandler, poolResponse, responses, RequestCount,
                 ErrorCount, sinks, served, env, tally>>

\* mutation: return after the hijack error was written
AfterHijackErr_abort == DeferredSteps[1]
\* where the request goes after a Hijack that returned an error
AfterHijackErr == EnterBegin

\* if isHijack { _, hijack_err := httpCtx.Hijack(); if hijack_err != nil {...} }
\* runs before the deferred func is registered
Hijack(s) ==
  LET q == reqs[s]
      res == contexts[q.httpCtx].Response
  IN
  /\ q.pc = "hijack"
  /\ \E o \in HijackOutcomes :
       \/ /\ o = "ok"
          /\ sinks' = [sinks EXCEPT ![s].hijacked = TRUE]
          /\ responses' = responses
          /\ reqs' = [reqs EXCEPT ![s] = [q EXCEPT !.pc = EnterBegin, !.hijack = o]]
       \/ /\ o = "err"
          /\ LET H1 == ResponseWriteHeader(Heap, res, StatusInternalServerError)
                 H2 == ResponseHeaderSet(H1, res, HeaderContentType)
                 H3 == ContextWriteString(H2, q.httpCtx, MsgHijackErr)
             IN /\ responses' = H3.R
                /\ sinks' = H3.W
          /\ reqs' = [reqs EXCEPT ![s] = [q EXCEPT !.pc = AfterHijackErr, !.hijack = o]]
       \/ /\ o = "panic"
          /\ UNCHANGED <<responses, sinks>>
          /\ reqs' = [reqs EXCEPT ![s] = [Escape(q, HijackFault) EXCEPT !.hijack = o]]
  /\ UNCHANGED <<Modules, ExceptionHandler, poolResponse, poolContext, contexts,
                 RequestCount, ErrorCount, served, env>>
  /\ tally' = TallyAfter(s)

TailOf(q) == IF q.err = NoErr THEN StdNormalTail ELSE StdFaultTail

\* for _, module := range Modules { if module.OnBeginRequest != nil {...} }
BeginHook(s) ==
  LET q == reqs[s] IN
  /\ q.pc = "begin"
  /\ IF HasBeginHook(q.i)
     THEN LET q1 == [q EXCEPT !.trace = Append(@, BeginStep(q.i)),
                              !.usedAfterPut = UsesContext(q)]
          IN \E fault \in env.hookFaults :
               reqs' = [reqs EXCEPT ![s] =
                 IF fault THEN Panics(q1, BeginStep(q.i))
                 ELSE [q1 EXCEPT !.pc = AfterBeginHook(q.i), !.i = IF q.i < Len(Modules) THEN q.i + 1 ELSE 1]]
     ELSE reqs' = [reqs EXCEPT ![s] =
            [q EXCEPT !.pc = AfterBeginHook(q.i), !.i = IF q.i < Len(Modules) THEN q.i + 1 ELSE 1]]
  /\ UNCHANGED <<Modules, ExceptionHandler, poolResponse, poolContext, responses,
                 contexts, RequestCount, ErrorCount, sinks, served, env>>
  /\ tally' = TallyAfter(s)

\* handle(httpCtx): the user handler writes a status and "ok", or panics
\* before or after writing
Handle(s) ==
  LET q == reqs[s]
      res == contexts[q.httpCtx].Response
      q1 == [q EXCEPT !.trace = Append(@, HandlerStep), !.i = 1,
                      !.usedAfterPut = UsesBoth(q)]
  IN
  /\ q.pc = "handle"
  /\ \E b \in env.handlers, code \in HandlerStatuses :
       LET H1 == ResponseWriteHeader(Heap, res, code)
           H2 == ResponseWrite(H1, res, MsgOk)
           H == IF b = "panic" THEN Heap ELSE H2
       IN /\ responses' = H.R
          /\ sinks' = H.W
          /\ reqs' = [reqs EXCEPT ![s] =
               IF b = "ok" THEN [q1 EXCEPT !.pc = EnterEnd]
               ELSE Panics(q1, HandlerStep)]
  /\ UNCHANGED <<Modules, ExceptionHandler, poolResponse, poolContext, contexts,
                 RequestCount, ErrorCount, served, env>>
  /\ tally' = TallyAfter(s)

\* for _, module := range Modules { if module.OnEndRequest != nil {...} }
\* an end-hook that returns has set a response header
EndHook(s) ==
  LET q == reqs[s]
      res == contexts[q.httpCtx].Response
      next == [q EXCEPT !.pc = AfterEndHook(q.i),
                        !.i = IF q.i < Len(Modules) THEN q.i + 1 ELSE 1]
  IN
  /\ q.pc = "end"
  /\ IF HasEndHook(q.i)
     THEN \E fault \in env.hookFaults :
            LET H == IF fault THEN Heap ELSE ResponseHeaderSet(Heap, res, HeaderModule)
                q1 == [q EXCEPT !.trace = Append(@, EndStep(q.i)),
                                !.usedAfterPut = UsesBoth(q)]
            IN /\ sinks' = H.W
               /\ reqs' = [reqs EXCEPT ![s] =
                    IF fault THEN Panics(q1, EndStep(q.i))
                    ELSE [q1 EXCEPT !.pc = next.pc, !.i = next.i]]
     ELSE /\ reqs' = [reqs EXCEPT ![s] = next]
          /\ sinks' = sinks
  /\ UNCHANGED <<Modules, ExceptionHandler, poolResponse, poolContext, responses,
                 contexts, RequestCount, ErrorCount, served, env>>
  /\ tally' = TallyAfter(s)

\* GlobalState.AddRequestCount(1), last statement of the body
AddRequestCount(s) ==
  LET q == reqs[s] IN
  /\ q.pc = "count"
  /\ RequestCount' = RequestCount + 1
  /\ reqs' = [reqs EXCEPT ![s] =
       Goto([q EXCEPT !.addReq = @ + 1, !.events = Append(@, "count")],
            Succ(TailOf(q), "count"))]
  /\ UNCHANGED <<Modules, ExceptionHandler, poolResponse, poolContext, responses,
                 contexts, ErrorCount, sinks, served, env>>
  /\ tally' = TallyAfter(s)

\* mutation: the nil test inverted
HandlerConfigured_inverted == ~ExceptionHandler
\* if server.dotweb.ExceptionHandler != nil
HandlerConfigured == ExceptionHandler

\* if err := recover(); err != nil { errmsg = CatchError(...);
\*   ExceptionHandler(httpCtx, err) or the default 500 write }
ExceptionHandling(s) ==
  LET q == reqs[s]
      res == contexts[q.httpCtx].Response
      next == Succ(TailOf(q), "exception")
  IN
  /\ q.pc = "exception"
  /\ IF HandlerConfigured
     THEN /\ \E fault \in BOOLEAN :
               LET q1 == [q EXCEPT !.ehCalls = @ + 1,
                                   !.ehArgs = <<q.httpCtx, q.err>>,
                                   !.events = Append(@, "exception_handler"),
                                   !.usedAfterPut = UsesBoth(q)]
               IN reqs' = [reqs EXCEPT ![s] =
                    IF fault THEN Escape(q1, ExceptionFault) ELSE Goto(q1, next)]
          /\ UNCHANGED <<responses, sinks>>
     ELSE LET H1 == ResponseWriteHeader(Heap, res, StatusInternalServerError)
              H2 == ResponseHeaderSet(H1, res, HeaderContentType)
              H3 == WriterWriteString(H2, res, CatchError(q.err))
          IN /\ responses' = H3.R
             /\ sinks' = H3.W
             /\ reqs' = [reqs EXCEPT ![s] =
                  Goto([q EXCEPT !.events = Append(@, "default_write"),
                                 !.usedAfterPut = UsesBoth(q)], next)]
  /\ UNCHANGED <<Modules, ExceptionHandler, poolResponse, poolContext, contexts,
                 RequestCount, ErrorCount, served, env, tally>>

\* logger.Log(logString, LogTarget_HttpServer, LogLevel_Error)
ErrorLog(s) ==
  LET q == reqs[s] IN
  /\ q.pc = "errlog"
  /\ reqs' = [reqs EXCEPT ![s] =
       Goto([q EXCEPT !.errLogs = @ + 1, !.events = Append(@, "errlog"),
                      !.usedAfterPut = UsesBoth(q)],
            Succ(TailOf(q), "errlog"))]
  /\ UNCHANGED <<Modules, ExceptionHandler, poolResponse, poolContext, responses,
                 contexts, RequestCount, ErrorCount, sinks, served, env, tally>>

\* GlobalState.AddErrorCount(1)
AddErrorCount(s) ==
  LET q == reqs[s] IN
  /\ q.pc = "adderr"
  /\ ErrorCount' = ErrorCount + 1
  /\ reqs' = [reqs EXCEPT ![s] =
       Goto([q EXCEPT !.addErr = @ + 1, !.events = Append(@, "adderr")],
            Succ(TailOf(q), "adderr"))]
  /\ UNCHANGED <<Modules, ExceptionHandler, poolResponse, poolContext, responses,
                 contexts, RequestCount, sinks, served, env, tally>>

\* logString(ctx, timetaken): status and response bytes of the access line
logString(ctx) ==
  IF ~contexts[ctx].IsWebSocket
  THEN <<responses[contexts[ctx].Response].Status, responses[contexts[ctx].Response].Size>>
  ELSE <<0, 0>>

\* logger.Log(httpCtx.Url()+" "+logString(httpCtx, timetaken), ...)
AccessLog(s) ==
  LET q == reqs[s] IN
  /\ q.pc = "accesslog"
  /\ reqs' = [reqs EXCEPT ![s] =
       Goto([q EXCEPT !.accessLogs = @ + 1, !.events = Append(@, "accesslog"),
                      !.logged = Append(@, logString(q.httpCtx)),
                      !.usedAfterPut = UsesBoth(q)],
            Succ(TailOf(q), "accesslog"))]
  /\ UNCHANGED <<Modules, ExceptionHandler, poolResponse, poolContext, responses,
                 contexts, RequestCount, ErrorCount, sinks, served, env, tally>>

\* server.pool.response.Put(res)
PutResponse(s) ==
  LET q == reqs[s] IN
  /\ q.pc = "put_res"
  /\ poolResponse' = poolResponse \cup {q.res}
  /\ reqs' = [reqs EXCEPT ![s] =
       Goto([q EXCEPT !.putRes = @ + 1, !.events = Append(@, "put_res")],
            Succ(TailOf(q), "put_res"))]
  /\ UNCHANGED <<Modules, ExceptionHandler, poolContext, responses, contexts,
                 RequestCount, ErrorCount, sinks, served, env, tally>>

\* server.pool.context.Put(httpCtx)
PutContext(s) ==
  LET q == reqs[s] IN
  /\ q.pc = "put_ctx"
  /\ poolContext' = poolContext \cup {q.httpCtx}
  /\ reqs' = [reqs EXCEPT ![s] =
       Goto([q EXCEPT !.putCtx = @ + 1, !.events = Append(@, "put_ctx")],
            Succ(TailOf(q), "put_ctx"))]
  /\ UNCHANGED <<Modules, ExceptionHandler, poolResponse, responses, contexts,
                 RequestCount, ErrorCount, sinks, served, env, tally>>

\* ---- wrapWebSocketHandle ----
WsHandlerBehaviours == {"ok", "panic"}
WsDeferredSteps == <<"ws_accesslog", "ws_put_ctx">>
WsNormalTail == <<"ws_count">> \o WsDeferredSteps
\* mutation: AddRequestCount inside the deferred block
WsFaultTail_counts == <<"ws_errlog", "ws_adderr", "ws_count">> \o WsDeferredSteps
\* mutation: the recover branch without the error-log record
WsFaultTail_noLog == <<"ws_adderr">> \o WsDeferredSteps
WsFaultTail == <<"ws_errlog", "ws_adderr">> \o WsDeferredSteps
WsTailOf(q) == IF q.err = NoErr THEN WsNormalTail ELSE WsFaultTail
WsPanics(q, err) == [q EXCEPT !.pc = WsFaultTail[1], !.err = err]

\* mutation: the WebSocket handle is set but the flag is not
WsBind_noFlag(c, ws) == [c EXCEPT !.WebSocket = ws]
\* httpCtx.WebSocket = &WebSocket{Conn: ws}; httpCtx.IsWebSocket = true
WsBind(c, ws) == [c EXCEPT !.WebSocket = ws, !.IsWebSocket = TRUE]

\* httpCtx := pool.context.Get(); httpCtx.Reset(nil, ws.Request(), nil);
\* then the WebSocket handle and flag are set
WsGetContext(s) ==
  LET q == reqs[s]
      fresh(c) == WsBind(ContextReset(c, 0, q.id, << >>), q.id)
  IN
  /\ q.pc = "ws_get_ctx"
  /\ \E x \in PoolGet(poolContext, contexts) :
       /\ poolContext' = PoolAfterGet(poolContext, contexts, x)
       /\ contexts' = HeapAfterGet(contexts, poolContext, x, NewHttpContext,
                                   fresh(Instance(contexts, x, NewHttpContext)))
       /\ reqs' = [reqs EXCEPT ![s] =
            [q EXCEPT !.pc = "ws_handle", !.httpCtx = x, !.gotCtx = @ + 1,
                      !.prevCtx = Instance(contexts, x, NewHttpContext)]]
  /\ UNCHANGED <<Modules, ExceptionHandler, poolResponse, responses, RequestCount,
                 ErrorCount, sinks, served, env, tally>>

\* handle(httpCtx)
WsHandle(s) ==
  LET q == reqs[s]
      q1 == [q EXCEPT !.trace = Append(@, HandlerStep), !.usedAfterPut = UsesContext(q)]
  IN
  /\ q.pc = "ws_handle"
  /\ \E b \in WsHandlerBehaviours \cap env.handlers :
       reqs' = [reqs EXCEPT ![s] =
         IF b = "ok" THEN [q1 EXCEPT !.pc = WsNormalTail[1]]
         ELSE WsPanics(q1, HandlerStep)]
  /\ UNCHANGED <<Modules, ExceptionHandler, poolResponse, poolContext, responses,
                 contexts, RequestCount, ErrorCount, sinks, served, env>>
  /\ tally' = TallyAfter(s)

\* GlobalState.AddRequestCount(1), last statement of the body
WsAddRequestCount(s) ==
  LET q == reqs[s] IN
  /\ q.pc = "ws_count"
  /\ RequestCount' = RequestCount + 1
  /\ reqs' = [reqs EXCEPT ![s] =
       Goto([q EXCEPT !.addReq = @ + 1, !.events = Append(@, "count")],
            Succ(WsTailOf(q), "ws_count"))]
  /\ UNCHANGED <<Modules, ExceptionHandler, poolResponse, poolContext, responses,
                 contexts, ErrorCount, sinks, served, env>>
  /\ tally' = TallyAfter(s)

\* if err := recover(); err != nil { errmsg = CatchError(...); logger.Log(...) }
WsErrorLog(s) ==
  LET q == reqs[s] IN
  /\ q.pc = "ws_errlog"
  /\ reqs' = [reqs EXCEPT ![s] =
       Goto([q EXCEPT !.errLogs = @ + 1, !.events = Append(@, "errlog"),
                      !.usedAfterPut = UsesContext(q)],
            Succ(WsTailOf(q), "ws_errlog"))]
  /\ UNCHANGED <<Modules, ExceptionHandler, poolResponse, poolContext, responses,
                 contexts, RequestCount, ErrorCount, sinks, served, env, tally>>

\* GlobalState.AddErrorCount(1)
WsAddErrorCount(s) ==
  LET q == reqs[s] IN
  /\ q.pc = "ws_adderr"
  /\ ErrorCount' = ErrorCount + 1
  /\ reqs' = [reqs EXCEPT ![s] =
       Goto([q EXCEPT !.addErr = @ + 1, !.events = Append(@, "adderr")],
            Succ(WsTailOf(q), "ws_adderr"))]
  /\ UNCHANGED <<Modules, ExceptionHandler, poolResponse, poolContext, responses,
                 contexts, RequestCount, sinks, served, env, tally>>

\* logger.Log(httpCtx.Url()+" "+logString(httpCtx, timetaken), ...)
WsAccessLog(s) ==
  LET q == reqs[s] IN
  /\ q.pc = "ws_accesslog"
  /\ reqs' = [reqs EXCEPT ![s] =
       Goto([q EXCEPT !.accessLogs = @ + 1, !.events = Append(@, "accesslog"),
                      !.logged = Append(@, logString(q.httpCtx)),
                      !.usedAfterPut = UsesContext(q)],
            Succ(WsTailOf(q), "ws_accesslog"))]
  /\ UNCHANGED <<Modules, ExceptionHandler, poolResponse, poolContext, responses,
                 contexts, RequestCount, ErrorCount, sinks, served, env, tally>>

\* server.pool.context.Put(httpCtx)
WsPutContext(s) ==
  LET q == reqs[s] IN
  /\ q.pc = "ws_put_ctx"
  /\ poolContext' = poolContext \cup {q.httpCtx}
  /\ reqs' = [reqs EXCEPT ![s] =
       Goto([q EXCEPT !.putCtx = @ + 1, !.events = Append(@, "put_ctx")],
            Succ(WsTailOf(q), "ws_put_ctx"))]
  /\ UNCHANGED <<Modules, ExceptionHandler, poolResponse, responses, contexts,
                 RequestCount, ErrorCount, sinks, served, env, tally>>

\* ServeHTTP has returned or panicked: the transport ends the exchange
Finish(s) ==
  /\ reqs[s].pc = "done"
  /\ reqs' = [reqs EXCEPT ![s] = IdleReq]
  /\ sinks' = [sinks EXCEPT ![s] = NewSink]
  /\ UNCHANGED <<Modules, ExceptionHandler, poolResponse, poolContext, responses,
                 contexts, RequestCount, ErrorCount, served, env, tally>>

Next ==
  \E s \in Slots :
    \/ ServeHTTP(s)
    \/ Finish(s)
    \/ GetResponse(s)
    \/ GetContext(s)
    \/ Hijack(s)
    \/ BeginHook(s)
    \/ Handle(s)
    \/ EndHook(s)
    \/ AddRequestCount(s)
    \/ ExceptionHandling(s)
    \/ ErrorLog(s)
    \/ AddErrorCount(s)
    \/ AccessLog(s)
    \/ PutResponse(s)
    \/ PutContext(s)
    \/ WsGetContext(s)
    \/ WsHandle(s)
    \/ WsAddRequestCount(s)
    \/ WsErrorLog(s)
    \/ WsAddErrorCount(s)
    \/ WsAccessLog(s)
    \/ WsPutContext(s)

Spec == Init /\ [][Next]_vars
SpecConcurrent == InitConcurrent /\ [][Next]_vars
SpecRouting == InitRouting /\ [][Next]_vars

\* the steps of the goroutine serving the request in slot s
Progress(s) ==
  \/ GetResponse(s) \/ GetContext(s) \/ Hijack(s) \/ BeginHook(s) \/ Handle(s)
  \/ EndHook(s) \/ AddRequestCount(s) \/ ExceptionHandling(s) \/ ErrorLog(s)
  \/ AddErrorCount(s) \/ AccessLog(s) \/ PutResponse(s) \/ PutContext(s)
  \/ WsGetContext(s) \/ WsHandle(s) \/ WsAddRequestCount(s) \/ WsErrorLog(s)
  \/ WsAddErrorCount(s) \/ WsAccessLog(s) \/ WsPutContext(s)

\* concurrent connections; every goroutine that can take a step is scheduled,
\* and every hook, handler and ExceptionHandler call terminates
SpecConcurrentFair == SpecConcurrent /\ \A s \in Slots : WF_vars(Progress(s))

\* ---- properties ----
Done(s) == reqs[s].pc = "done"
Std(s) == reqs[s].path = "router"
Ws(s) == reqs[s].path = "websocket"
Faulted(s) == reqs[s].err # NoErr

\* the hooks the module list defines, in registration order, around the handler
Indices == [i \in 1..Len(Modules) |-> i]
BeginIndices == SelectSeq(Indices, LAMBDA i : Modules[i].OnBeginRequest)
EndIndices == SelectSeq(Indices, LAMBDA i : Modules[i].OnEndRequest)
ExpectedTrace ==
  [k \in 1..Len(BeginIndices) |-> <<"begin", BeginIndices[k]>>]
  \o <<HandlerStep>>
  \o [k \in 1..Len(EndIndices) |-> <<"end", EndIndices[k]>>]
UpTo(step) ==
  SubSeq(ExpectedTrace, 1,
         CHOOSE k \in 1..Len(ExpectedTrace) : ExpectedTrace[k] = step)

\* C1 (as stated): every standard-path request, faulting or not, takes exactly
\* one Response and one HttpContext from the pools and puts exactly one of each
\* back.
C1_PoolBalance ==
  \A s \in Slots :
    Done(s) /\ Std(s) =>
      /\ reqs[s].gotRes = 1 /\ reqs[s].gotCtx = 1
      /\ reqs[s].putRes = 1 /\ reqs[s].putCtx = 1

\* C2 (as stated): a fault of a module hook or of the handler is recovered in
\* the dispatcher, on both paths: the dispatcher returns normally.
C2_FaultsContained ==
  \A s \in Slots : Done(s) /\ Faulted(s) => reqs[s].outcome = "returned"

\* C2 (amended): a fault of a module hook or of the handler never leaves the
\* dispatcher, and the dispatcher returns normally unless the configured
\* ExceptionHandler itself faults while handling it on the standard path.
C2_FaultsContainedUnlessExceptionHandlerFaults ==
  \A s \in Slots :
    Done(s) /\ Faulted(s) =>
      /\ reqs[s].escaped # reqs[s].err
      /\ reqs[s].outcome = "panicked" =>
           Std(s) /\ ExceptionHandler /\ reqs[s].escaped = ExceptionFault
      /\ reqs[s].escaped = NoErr => reqs[s].outcome = "returned"

C2_Witness ==
  \E s \in Slots :
    /\ Done(s) /\ Std(s) /\ reqs[s].err = BeginStep(1)
    /\ reqs[s].outcome = "returned" /\ reqs[s].escaped = NoErr

\* C3: a standard-path request in which nothing faults invokes exactly the
\* begin-hooks that exist in registration order, then the handler once, then
\* the end-hooks that exist in registration order.
C3_HookOrder ==
  \A s \in Slots :
    Done(s) /\ Std(s) /\ ~Faulted(s) /\ reqs[s].outcome = "returned" =>
      reqs[s].trace = ExpectedTrace

C3_Witness ==
  \E s \in Slots :
    /\ Done(s) /\ Std(s) /\ ~Faulted(s)
    /\ Len(Modules) = 2
    /\ ~Modules[1].OnBeginRequest /\ Modules[2].OnBeginRequest
    /\ Modules[1].OnEndRequest /\ Modules[2].OnEndRequest
    /\ reqs[s].trace = <<BeginStep(2), HandlerStep, EndStep(1), EndStep(2)>>

\* C4 (as stated): when a hook or the handler faults on the standard path, no
\* later step of the begin/handler/end sequence runs and the error counter
\* grows by exactly 1; without a fault the error counter is unchanged.
C4_FaultStopsChainAndCounts ==
  \A s \in Slots :
    Done(s) /\ Std(s) =>
      /\ Faulted(s) =>
           /\ reqs[s].trace = UpTo(reqs[s].err)
           /\ ErrorCount = reqs[s].count0[2] + 1
      /\ ~Faulted(s) => ErrorCount = reqs[s].count0[2]

\* C4 (amended): when a hook or the handler faults on the standard path, no
\* later step of the begin/handler/end sequence runs, and the error counter
\* grows by exactly 1 unless the configured ExceptionHandler itself faults, in
\* which case it is unchanged; without a fault the error counter is unchanged.
C4_FaultStopsChainAndCountsUnlessExceptionHandlerFaults ==
  \A s \in Slots :
    Done(s) /\ Std(s) =>
      /\ Faulted(s) =>
           /\ reqs[s].trace = UpTo(reqs[s].err)
           /\ ErrorCount = reqs[s].count0[2] +
                (IF reqs[s].escaped = ExceptionFault THEN 0 ELSE 1)
      /\ ~Faulted(s) => ErrorCount = reqs[s].count0[2]

C4_Witness ==
  \E s \in Slots :
    /\ Done(s) /\ Std(s) /\ reqs[s].err = HandlerStep
    /\ Len(EndIndices) > 0 /\ Len(BeginIndices) > 0
    /\ reqs[s].trace = UpTo(HandlerStep)
    /\ ErrorCount = reqs[s].count0[2] + 1

\* C5 (as stated): with no ExceptionHandler, a standard-path request in which
\* a hook or the handler faults gives the client status 500, the UTF-8
\* content-type header and the fault description as body.
C5_Default500Response ==
  \A s \in Slots :
    Done(s) /\ Std(s) /\ Faulted(s) /\ ~ExceptionHandler =>
      /\ sinks[s].status = StatusInternalServerError
      /\ HeaderContentType \in sinks[s].sent
      /\ sinks[s].body = <<CatchError(reqs[s].err)>>

C7_StdCountsOnlyWithoutFault ==
  \A s \in Slots :
    Done(s) /\ Std(s) =>
      RequestCount = reqs[s].count0[1] +
        (IF ~Faulted(s) /\ reqs[s].trace = ExpectedTrace THEN 1 ELSE 0)

C7_Witness ==
  \E s \in Slots :
    /\ Done(s) /\ Std(s) /\ reqs[s].err = EndStep(2)
    /\ RequestCount = reqs[s].count0[1]
    /\ reqs[s].count0[1] = 1

\* C8 (as stated): a fault raised by the hijack attempt itself is contained
\* like a handler fault: logged, counted in the error counter, and the pooled
\* Response and HttpContext are released.
C8_HijackFaultRecovered ==
  \A s \in Slots :
    Done(s) /\ reqs[s].hijack = "panic" =>
      /\ reqs[s].outcome = "returned"
      /\ reqs[s].errLogs = 1
      /\ ErrorCount = reqs[s].count0[2] + 1
      /\ reqs[s].putRes = 1 /\ reqs[s].putCtx = 1

\* C9: when Hijack returns an error the dispatcher writes status 500 and the
\* failure description, and the request is not aborted: the hook/handler flow
\* starts, and when nothing faults it is the full flow, the request counter
\* grows by 1 and the error counter is unchanged.
C9_HijackErrorDegrades ==
  \A s \in Slots :
    Done(s) /\ reqs[s].hijack = "err" =>
      /\ sinks[s].status = StatusInternalServerError
      /\ Len(sinks[s].body) >= 1 /\ sinks[s].body[1] = MsgHijackErr
      /\ Len(reqs[s].trace) >= 1 /\ reqs[s].trace[1] = ExpectedTrace[1]
      /\ ~Faulted(s) =>
           /\ reqs[s].trace = ExpectedTrace
           /\ reqs[s].outcome = "returned"
           /\ RequestCount = reqs[s].count0[1] + 1
           /\ ErrorCount = reqs[s].count0[2]

C9_Witness ==
  \E s \in Slots :
    /\ Done(s) /\ reqs[s].hijack = "err" /\ ~Faulted(s)
    /\ Len(reqs[s].trace) = 3
    /\ sinks[s].body = <<MsgHijackErr, MsgOk>>
    /\ RequestCount = reqs[s].count0[1] + 1

\* C10: under any interleaving, each pooled Response and HttpContext is owned
\* by at most one in-flight request, no owned instance is in the idle pool,
\* and no request touches an instance after putting it back.
OwnsResponse(s) ==
  reqs[s].pc \notin {"idle", "done"} /\ reqs[s].res # 0 /\ reqs[s].putRes = 0
OwnsContext(s) ==
  reqs[s].pc \notin {"idle", "done"} /\ reqs[s].httpCtx # 0 /\ reqs[s].putCtx = 0
C10_ExclusiveOwnership ==
  /\ \A s, t \in Slots :
       s # t =>
         /\ OwnsResponse(s) /\ OwnsResponse(t) => reqs[s].res # reqs[t].res
         /\ OwnsContext(s) /\ OwnsContext(t) => reqs[s].httpCtx # reqs[t].httpCtx
  /\ \A s \in Slots :
       /\ OwnsResponse(s) => reqs[s].res \notin poolResponse
       /\ OwnsContext(s) => reqs[s].httpCtx \notin poolContext
       /\ ~reqs[s].usedAfterPut
       /\ reqs[s].putRes <= 1 /\ reqs[s].putCtx <= 1

C10_Witness ==
  \E s, t \in Slots :
    /\ s # t /\ Std(s) /\ Ws(t)
    /\ OwnsContext(s) /\ OwnsContext(t) /\ OwnsResponse(s)
    /\ reqs[s].pc = "accesslog" /\ reqs[t].pc = "ws_accesslog"
    /\ poolContext = {} /\ Len(contexts) = 2

\* C11: an HttpContext reacquired from the pool shows the hooks and the handler
\* only the later request's path parameters, IsWebSocket flag, WebSocket
\* handle, Response reference and request reference; after a WebSocket use, a
\* standard-path request sees IsWebSocket false and no WebSocket handle.
C11_ReuseShowsOnlyNewRequest ==
  \A s \in Slots :
    OwnsContext(s) =>
      LET c == contexts[reqs[s].httpCtx] IN
      /\ c.Request = reqs[s].id
      /\ c.params = (IF Ws(s) THEN << >> ELSE <<reqs[s].id>>)
      /\ c.IsWebSocket = Ws(s)
      /\ c.WebSocket = (IF Ws(s) THEN reqs[s].id ELSE 0)
      /\ c.Response = (IF Ws(s) THEN 0 ELSE reqs[s].res)

C11_Witness ==
  \E s \in Slots :
    /\ Std(s) /\ reqs[s].pc = "handle"
    /\ reqs[s].prevCtx.IsWebSocket /\ reqs[s].prevCtx.WebSocket = 1
    /\ reqs[s].prevCtx.Request = 1 /\ reqs[s].id = 2
    /\ ~contexts[reqs[s].httpCtx].IsWebSocket
    /\ contexts[reqs[s].httpCtx].WebSocket = 0

\* C12: on the WebSocket path no module hook runs, the ExceptionHandler is
\* never called and nothing is written to the response; a handler fault gives
\* exactly one error-log record and raises the error counter by exactly 1.
C12_WsNoHooksNoResponse ==
  \A s \in Slots :
    Done(s) /\ Ws(s) =>
      /\ reqs[s].trace = <<HandlerStep>>
      /\ reqs[s].ehCalls = 0
      /\ sinks[s] = NewSink
      /\ Faulted(s) => /\ reqs[s].errLogs = 1
                       /\ ErrorCount = reqs[s].count0[2] + 1
      /\ ~Faulted(s) => /\ reqs[s].errLogs = 0
                        /\ ErrorCount = reqs[s].count0[2]

C12_Witness ==
  \E s \in Slots :
    /\ Done(s) /\ Ws(s) /\ Faulted(s)
    /\ ExceptionHandler /\ Len(BeginIndices) > 0 /\ Len(EndIndices) > 0
    /\ reqs[s].errLogs = 1 /\ reqs[s].ehCalls = 0
    /\ ErrorCount = reqs[s].count0[2] + 1

RECURSIVE BodyBytes(_)
BodyBytes(body) == IF body = << >> THEN 0 ELSE MsgLen(Head(body)) + BodyBytes(Tail(body))

\* C15 (as stated): when a standard-path request emits its access-log line,
\* the Response's Size equals the bytes written to the sink for that request,
\* on non-faulting responses, after the hijack-degradation write and after the
\* default 500 body of the fault recovery.
C15_SizeMatchesBytesWritten ==
  \A s \in Slots :
    Std(s) /\ reqs[s].accessLogs = 1 =>
      reqs[s].logged[1][2] = BodyBytes(sinks[s].body)

\* C15, the part that holds: the same without the default 500 body.
C15_SizeMatchesWithoutDefaultWrite ==
  \A s \in Slots :
    Std(s) /\ reqs[s].accessLogs = 1 /\ (Faulted(s) => ExceptionHandler) =>
      reqs[s].logged[1][2] = BodyBytes(sinks[s].body)

\* the events of a request end with the access-log line and then the Put calls,
\* and on a fault the error log and the error count come before the line
AccessLogOrdered(s) ==
  LET ev == reqs[s].events
      n == Len(ev)
      puts == IF Ws(s) THEN <<"put_ctx">> ELSE <<"put_res", "put_ctx">>
      k == n - Len(puts)
  IN /\ reqs[s].accessLogs = 1
     /\ k >= 1 /\ ev[k] = "accesslog" /\ SubSeq(ev, k + 1, n) = puts
     /\ Faulted(s) => /\ k >= 3
                      /\ SubSeq(ev, k - 2, k - 1) = <<"errlog", "adderr">>

\* C16 (as stated): every request on either path emits exactly one access-log
\* line, faulting or not; on a fault the line comes after the error-log record
\* and the error-counter increment, and always before the pooled objects are
\* released.
C16_OneAccessLogLine ==
  \A s \in Slots : Done(s) => AccessLogOrdered(s)

\* C16, the part that holds: the same for every request whose dispatcher
\* returned.
C16_OneAccessLogLineWhenReturned ==
  \A s \in Slots : Done(s) /\ reqs[s].outcome = "returned" => AccessLogOrdered(s)

AllFinished == served = MaxRequests /\ \A s \in Slots : reqs[s].pc \in {"idle", "done"}

\* C17 (as stated): under any interleaving no counter increment is lost: once
\* all requests have finished, the request counter equals the number of
\* requests that reached AddRequestCount and the error counter the number of
\* requests that faulted.
C17_CountersMatchRequests ==
  AllFinished => RequestCount = tally.reached /\ ErrorCount = tally.faulted

\* C17, the part that holds: the request counter always equals the number of
\* requests that reached AddRequestCount, and the error counter never exceeds
\* the number of requests that faulted.
C17_NoLostIncrement ==
  RequestCount = tally.reached /\ ErrorCount <= tally.faulted

\* the server of scenario 1: one module, with only OnEndRequest
OnlyEndHookModule == Modules = <<[OnBeginRequest |-> FALSE, OnEndRequest |-> TRUE]>>
\* a plain GET whose handler wrote 200 and "ok" and whose end-hook returned
PingServed(s) ==
  /\ Done(s) /\ Std(s) /\ ~reqs[s].isHijack /\ ~Faulted(s)
  /\ reqs[s].trace = <<HandlerStep, EndStep(1)>>

\* C18 (as stated): with one module that has only OnEndRequest, which adds a
\* fixed header, and a handler that writes 200 and "ok", the client receives
\* status 200, body "ok" and the fixed header; the request counter grew by 1
\* and the error counter is unchanged.
C18_ScenarioPing ==
  \A s \in Slots :
    OnlyEndHookModule /\ PingServed(s) =>
      /\ sinks[s].status = 200
      /\ sinks[s].body = <<MsgOk>>
      /\ HeaderModule \in sinks[s].sent
      /\ RequestCount = reqs[s].count0[1] + 1
      /\ ErrorCount = reqs[s].count0[2]

\* C18, the part that holds: status, body and counters; the fixed header is in
\* the handler-side header map only.
C18_ScenarioPingWithoutHeader ==
  \A s \in Slots :
    OnlyEndHookModule /\ PingServed(s) =>
      /\ sinks[s].status = 200
      /\ sinks[s].body = <<MsgOk>>
      /\ HeaderModule \in sinks[s].header \ sinks[s].sent
      /\ RequestCount = reqs[s].count0[1] + 1
      /\ ErrorCount = reqs[s].count0[2]

\* C19 (as stated): every request that acquired pooled objects eventually
\* releases them, on both paths and on normal and faulting exits, and a request
\* in flight can always take its next step, whatever the other requests do.
C19_EventuallyReleased ==
  /\ [](\A s \in Slots : reqs[s].pc \notin {"idle", "done"} => ENABLED Progress(s))
  /\ \A s \in Slots, n \in 1..MaxRequests :
       /\ (reqs[s].id = n /\ reqs[s].gotRes = 1) ~> (reqs[s].id = n /\ reqs[s].putRes = 1)
       /\ (reqs[s].id = n /\ reqs[s].gotCtx = 1) ~> (reqs[s].id = n /\ reqs[s].putCtx = 1)

\* C19, the part that holds: no request waits on another, and a request
\* eventually releases what it acquired unless a fault left its dispatcher.
C19_EventuallyReleasedUnlessEscaped ==
  /\ [](\A s \in Slots : reqs[s].pc \notin {"idle", "done"} => ENABLED Progress(s))
  /\ \A s \in Slots, n \in 1..MaxRequests :
       /\ (reqs[s].id = n /\ reqs[s].gotRes = 1)
            ~> (reqs[s].id = n /\ (reqs[s].putRes = 1 \/ reqs[s].escaped # NoErr))
       /\ (reqs[s].id = n /\ reqs[s].gotCtx = 1)
            ~> (reqs[s].id = n /\ (reqs[s].putCtx = 1 \/ reqs[s].escaped # NoErr))

\* C20 (as stated): a completed request in which no ExceptionHandler faulted
\* incremented exactly one of the two counters: request counter plus error
\* counter grew by one.
C20_ExactlyOneCounter ==
  \A s \in Slots :
    Done(s) /\ reqs[s].escaped # ExceptionFault =>
      /\ reqs[s].addReq + reqs[s].addErr = 1
      /\ (RequestCount - reqs[s].count0[1]) + (ErrorCount - reqs[s].count0[2]) = 1
      /\ reqs[s].addErr = 1 <=> Faulted(s)

\* C20, the part that holds: the same for every request whose hijack attempt
\* did not fault.
C20_ExactlyOneCounterUnlessEscaped ==
  \A s \in Slots :
    Done(s) /\ reqs[s].escaped = NoErr =>
      /\ reqs[s].addReq + reqs[s].addErr = 1
      /\ (RequestCount - reqs[s].count0[1]) + (ErrorCount - reqs[s].count0[2]) = 1
      /\ reqs[s].addErr = 1 <=> Faulted(s)

====
